---- MODULE Spec2Model ----
(***************************************************************************)
(* Model of src/image_pthread.c: the 3x3 convolution sampler               *)
(* (getPixelValue), the worker thread body (convolute_thread) and the      *)
(* pthread driver (convolute) that partitions the rows over four workers.  *)
(***************************************************************************)
EXTENDS Integers, Sequences, FiniteSets, TLC

(***************************************************************************)
(* Bounds of the model.                                                    *)
(***************************************************************************)
MaxWidth == 2
MaxHeight == 5
MaxBpp == 5
\* largest number of samples (width * height * bpp) of an image
MaxSamples == 8

VARIABLES
    srcImage,     \* the source Image
    destImage,    \* the destination Image
    algorithm,    \* the kernel passed to convolute (an entry of algorithms)
    narrowing,    \* what the build does with an out-of-range double -> uint8_t
    pc,           \* position of the caller of convolute
    i,            \* loop counter of the dispatch loop, then of the join loop
    current_row,  \* first row not yet handed out
    args,         \* args[k]: <<>> while unset, else <<the ThreadArgs block>>
    threads,      \* threads[k]: state of the thread of slot k
    pos,          \* pos[k]: loop counters row, pix, bit of worker k
    freed,        \* slots whose ThreadArgs block has been freed
    writeLog,     \* writeLog[o]: the workers that stored to data[o], in order
    ub,           \* the undefined operations executed so far
    sample        \* the arguments of a call of getPixelValue on its own

vars == <<srcImage, destImage, algorithm, narrowing, pc, i, current_row, args,
          threads, pos, freed, writeLog, ub, sample>>

(***************************************************************************)
(* double arithmetic.  Every double the sampler forms is a weight of the   *)
(* kernel table times an 8-bit sample, or a sum of such products; all of   *)
(* them are multiples of 2^-56 below 2^12 in magnitude.  A double is       *)
(* modelled by its sign and by the integer N = |value| * 2^56, held in     *)
(* three limbs of 23 bits (least significant first), and every operation   *)
(* rounds N to 53 significant bits, to nearest, ties to even.              *)
(***************************************************************************)
FracBits == 56
LimbBits == 23
MantBits == 53
Limb == 2 ^ 23

Pow2(n) == 2 ^ n

\* the number of significant bits of n, a byte at a time
RECURSIVE BitLenByte(_)
BitLenByte(n) == IF n = 0 THEN 0 ELSE 1 + BitLenByte(n \div 2)

BitLenTable == [n \in 0..255 |-> BitLenByte(n)]

RECURSIVE BitLen(_)
BitLen(n) == IF n < 256 THEN BitLenTable[n] ELSE 8 + BitLen(n \div 256)

Abs(n) == IF n < 0 THEN -n ELSE n

MagAdd(a, b) ==
    LET s0 == a[1] + b[1]
        s1 == a[2] + b[2] + (s0 \div Limb)
        s2 == a[3] + b[3] + (s1 \div Limb)
    IN  <<s0 % Limb, s1 % Limb, s2>>

\* a - b for a >= b
MagSub(a, b) ==
    LET d0 == a[1] - b[1]
        b0 == IF d0 < 0 THEN 1 ELSE 0
        d1 == a[2] - b[2] - b0
        b1 == IF d1 < 0 THEN 1 ELSE 0
    IN  <<d0 + b0 * Limb, d1 + b1 * Limb, a[3] - b[3] - b1>>

MagLess(a, b) ==
    \/ a[3] < b[3]
    \/ a[3] = b[3] /\ a[2] < b[2]
    \/ a[3] = b[3] /\ a[2] = b[2] /\ a[1] < b[1]

\* a * d for an 8-bit sample d
MagMulSmall(a, d) ==
    LET p0 == a[1] * d
        p1 == a[2] * d + (p0 \div Limb)
        p2 == a[3] * d + (p1 \div Limb)
    IN  <<p0 % Limb, p1 % Limb, p2>>

MagBitLen(a) ==
    IF a[3] > 0 THEN 2 * LimbBits + BitLen(a[3])
    ELSE IF a[2] > 0 THEN LimbBits + BitLen(a[2])
    ELSE BitLen(a[1])

\* round to 53 significant bits, to nearest, ties to even
Round53(a) ==
    LET drop == MagBitLen(a) - MantBits
    IN  IF drop <= 0 THEN a
        ELSE LET q == Pow2(drop)
                 r == a[1] % q
                 odd == (a[1] \div q) % 2 = 1
                 up == 2 * r > q \/ (2 * r = q /\ odd)
                 low == <<a[1] - r, a[2], a[3]>>
             IN  IF up THEN MagAdd(low, <<q, 0, 0>>) ELSE low

\* the double nearest to num / den (a constant of the kernel table)
DoubleOf(num, den) ==
    LET a3 == Abs(num) * Pow2(FracBits - 2 * LimbBits)
        t1 == (a3 % den) * Limb
        t0 == (t1 % den) * Limb
        r0 == t0 % den
        q == <<t0 \div den, t1 \div den, a3 \div den>>
        up == 2 * r0 > den \/ (2 * r0 = den /\ (t0 \div den) % 2 = 1)
        n == IF up THEN MagAdd(q, <<1, 0, 0>>) ELSE q
    IN  [neg |-> num < 0, mag |-> Round53(n)]

\* double * uint8_t (the sample is promoted to double, exactly)
DMul(w, d) ==
    LET p == MagMulSmall(w.mag, d)
    IN  [neg |-> w.neg, mag |-> Round53(p)]

DAdd(a, b) ==
    LET sum == MagAdd(a.mag, b.mag)
        ab == MagSub(a.mag, b.mag)
        ba == MagSub(b.mag, a.mag)
    IN  IF a.neg = b.neg THEN [neg |-> a.neg, mag |-> Round53(sum)]
        ELSE IF MagLess(a.mag, b.mag)
             THEN [neg |-> b.neg, mag |-> Round53(ba)]
             ELSE [neg |-> a.neg, mag |-> Round53(ab)]

\* the integral part of a double (truncation toward zero)
DTrunc(a) ==
    LET t == a.mag[3] \div Pow2(FracBits - 2 * LimbBits)
    IN  IF a.neg THEN -t ELSE t

(***************************************************************************)
(* Images and kernels.                                                     *)
(***************************************************************************)
\* an Image: width, height, bpp and the pixel array data, indexed from 0
BufLen(width, height, bpp) == width * height * bpp

Image(width, height, bpp, data) ==
    [width |-> width, height |-> height, bpp |-> bpp, data |-> data]

\* offset of channel bit of pixel (x, y) in a row-major, interleaved buffer
Index(x, y, width, bit, bpp) == y * width * bpp + bpp * x + bit

\* the kernel table: each weight as written, <<numerator, denominator>>
KernelTypes == {"EDGE", "SHARPEN", "BLUR", "GAUSE_BLUR", "EMBOSS", "IDENTITY"}

algorithms ==
    [EDGE       |-> << << <<0,1>>, <<-1,1>>, <<0,1>> >>,
                       << <<-1,1>>, <<4,1>>, <<-1,1>> >>,
                       << <<0,1>>, <<-1,1>>, <<0,1>> >> >>,
     SHARPEN    |-> << << <<0,1>>, <<-1,1>>, <<0,1>> >>,
                       << <<-1,1>>, <<5,1>>, <<-1,1>> >>,
                       << <<0,1>>, <<-1,1>>, <<0,1>> >> >>,
     BLUR       |-> << << <<1,9>>, <<1,9>>, <<1,9>> >>,
                       << <<1,9>>, <<1,9>>, <<1,9>> >>,
                       << <<1,9>>, <<1,9>>, <<1,9>> >> >>,
     GAUSE_BLUR |-> << << <<1,16>>, <<1,8>>, <<1,16>> >>,
                       << <<1,8>>, <<1,4>>, <<1,8>> >>,
                       << <<1,16>>, <<1,8>>, <<1,16>> >> >>,
     EMBOSS     |-> << << <<-2,1>>, <<-1,1>>, <<0,1>> >>,
                       << <<-1,1>>, <<1,1>>, <<1,1>> >>,
                       << <<0,1>>, <<1,1>>, <<2,1>> >> >>,
     IDENTITY   |-> << << <<0,1>>, <<0,1>>, <<0,1>> >>,
                       << <<0,1>>, <<1,1>>, <<0,1>> >>,
                       << <<0,1>>, <<0,1>>, <<0,1>> >> >>]

\* a Matrix: the nine weights as doubles
Matrix(k) == [r \in 1..3 |-> [c \in 1..3 |-> DoubleOf(k[r][c][1], k[r][c][2])]]

\* the table as the program holds it
Matrices == [k \in KernelTypes |-> Matrix(algorithms[k])]

(***************************************************************************)
(* getPixelValue.                                                          *)
(***************************************************************************)
\* the neighbour coordinates after the four edge tests: mx, x, px and
\* my, y, py
\* variant: the right-hand test lets x + 1 = width through
NeighbourX_pastedge(image, x) ==
    LET px == x + 1
        mx == x - 1
    IN  << IF mx < 0 THEN 0 ELSE mx,
           x,
           IF px > image.width THEN image.width - 1 ELSE px >>

NeighbourX(image, x) ==
    LET px == x + 1
        mx == x - 1
    IN  << IF mx < 0 THEN 0 ELSE mx,
           x,
           IF px >= image.width THEN image.width - 1 ELSE px >>

\* variant: the test of the top edge is missing
NeighbourY_notop(image, y) ==
    LET py == y + 1
        my == y - 1
    IN  << my,
           y,
           IF py >= image.height THEN image.height - 1 ELSE py >>

NeighbourY(image, y) ==
    LET py == y + 1
        my == y - 1
    IN  << IF my < 0 THEN 0 ELSE my,
           y,
           IF py >= image.height THEN image.height - 1 ELSE py >>

\* the nine offsets the sampler reads, by kernel row and column
SampleOffsets(image, x, y, bit) ==
    LET xs == NeighbourX(image, x)
        ys == NeighbourY(image, y)
    IN  [r \in 1..3 |-> [c \in 1..3 |->
            Index(xs[c], ys[r], image.width, bit, image.bpp)]]

\* a read of the pixel array; a read outside the array yields no sample
ReadData(image, o) ==
    IF o \in DOMAIN image.data THEN image.data[o] ELSE 0

\* the sum of the nine products, accumulated left to right in double
WeightedSum(image, x, y, bit, kernel) ==
    LET offs == SampleOffsets(image, x, y, bit)
        term(r, c) == DMul(kernel[r][c], ReadData(image, offs[r][c]))
        \* a partial sum and a product are values before they are added
        plus(s, t) == CHOOSE v \in {DAdd(a, b) : a \in {s}, b \in {t}} : TRUE
        s1 == term(1, 1)
        s2 == plus(s1, term(1, 2))
        s3 == plus(s2, term(1, 3))
        s4 == plus(s3, term(2, 1))
        s5 == plus(s4, term(2, 2))
        s6 == plus(s5, term(2, 3))
        s7 == plus(s6, term(3, 1))
        s8 == plus(s7, term(3, 2))
    IN  plus(s8, term(3, 3))

\* double -> uint8_t.  The conversion is defined when the integral part is
\* in 0..255; otherwise it is undefined and the build decides: "wrap" keeps
\* the low eight bits of the integral part, "saturate" stops at 0 and 255.
NarrowingModes == {"wrap", "saturate"}

ToUint8(t) ==
    IF t >= 0 /\ t <= 255 THEN t
    ELSE IF narrowing = "wrap" THEN t % 256
    ELSE IF t < 0 THEN 0 ELSE 255

getPixelValue(image, x, y, bit, kernel) ==
    LET sum == WeightedSum(image, x, y, bit, kernel)
        result == DTrunc(sum)
    IN  ToUint8(result)

(***************************************************************************)
(* The inputs of a call of convolute.                                      *)
(***************************************************************************)
num_threads == 4
Slots == 0..(num_threads - 1)

Shapes ==
    {sh \in (0..MaxWidth) \X (0..MaxHeight) \X (0..MaxBpp) :
        BufLen(sh[1], sh[2], sh[3]) <= MaxSamples}

\* the destination the caller allocated: of the shape of the source, or not
DestShapes(sh) ==
    {sh, <<sh[1] + 1, sh[2], sh[3]>>}
        \cup (IF sh[2] > 0 THEN {<<sh[1], sh[2] - 1, sh[3]>>} ELSE {})

\* pixel data of the source images
Palette == <<5, 200, 255, 0, 90, 31, 128, 64, 17, 250, 1>>
Shifts == 0..(Len(Palette) - 1)
PixelData(len, shift) ==
    [o \in 0..(len - 1) |-> Palette[((o + shift) % Len(Palette)) + 1]]

NoSample == [x |-> -1, y |-> -1, bit |-> -1]

Init ==
    /\ \E sh \in Shapes :
         /\ srcImage = Image(sh[1], sh[2], sh[3],
                             PixelData(BufLen(sh[1], sh[2], sh[3]), 0))
         /\ \E dsh \in DestShapes(sh) :
              destImage = Image(dsh[1], dsh[2], dsh[3],
                  [o \in 0..(BufLen(dsh[1], dsh[2], dsh[3]) - 1) |-> 170])
         /\ writeLog = [o \in 0..(BufLen(sh[1], sh[2], sh[3]) - 1) |-> <<>>]
    /\ algorithm \in KernelTypes
    /\ narrowing \in NarrowingModes
    /\ pc = "dispatch"
    /\ i = 0
    /\ current_row = 0
    /\ args = [k \in Slots |-> <<>>]
    /\ threads = [k \in Slots |-> "uninit"]
    /\ pos = [k \in Slots |-> [row |-> 0, pix |-> 0, bit |-> 0]]
    /\ freed = {}
    /\ ub = {}
    /\ sample = NoSample

(***************************************************************************)
(* convolute: the dispatch loop.                                           *)
(***************************************************************************)
\* variant: the quotient is rounded up
rows_per_thread_ceil == (srcImage.height + num_threads - 1) \div num_threads

rows_per_thread == srcImage.height \div num_threads
remainder == srcImage.height % num_threads

\* variant: one worker too many receives an extra row
this_rows_inclusive(k) == rows_per_thread + (IF k <= remainder THEN 1 ELSE 0)

this_rows(k) == rows_per_thread + (IF k < remainder THEN 1 ELSE 0)

Deref(ptr) == IF ptr = "srcImage" THEN srcImage ELSE destImage

\* variant: the workers sample the image they write
ThreadArgs_inplace(k) ==
    [src |-> "destImage", dest |-> "destImage", algorithm |-> algorithm,
     start_row |-> current_row, num_rows |-> this_rows(k),
     width |-> srcImage.width, bpp |-> srcImage.bpp]

ThreadArgs(k) ==
    [src |-> "srcImage", dest |-> "destImage", algorithm |-> algorithm,
     start_row |-> current_row, num_rows |-> this_rows(k),
     width |-> srcImage.width, bpp |-> srcImage.bpp]

\* the loop counters of a worker at its first iteration of the loop body,
\* or past its last row when the body never runs
FirstPos(a) ==
    IF a.num_rows > 0 /\ a.width > 0 /\ a.bpp > 0
    THEN [row |-> a.start_row, pix |-> 0, bit |-> 0]
    ELSE [row |-> a.start_row + a.num_rows, pix |-> 0, bit |-> 0]

\* variant: one argument block serves all workers and is refilled for each
Dispatch_sharedblock ==
    /\ pc = "dispatch"
    /\ i < num_threads
    /\ this_rows(i) # 0
    /\ args' = [k \in Slots |-> IF k <= i THEN <<ThreadArgs(i)>> ELSE args[k]]
    /\ threads' = [threads EXCEPT ![i] = "running"]
    /\ pos' = [pos EXCEPT ![i] = FirstPos(ThreadArgs(i))]
    /\ current_row' = current_row + this_rows(i)
    /\ i' = i + 1
    /\ UNCHANGED <<srcImage, destImage, algorithm, narrowing, pc, freed,
                   writeLog, ub, sample>>

\* variant: current_row is not advanced past the rows handed out
Dispatch_samerow ==
    /\ pc = "dispatch"
    /\ i < num_threads
    /\ this_rows(i) # 0
    /\ args' = [args EXCEPT ![i] = <<ThreadArgs(i)>>]
    /\ threads' = [threads EXCEPT ![i] = "running"]
    /\ pos' = [pos EXCEPT ![i] = FirstPos(ThreadArgs(i))]
    /\ i' = i + 1
    /\ UNCHANGED <<srcImage, destImage, algorithm, narrowing, pc, freed,
                   writeLog, ub, sample, current_row>>

\* one iteration of the dispatch loop that creates a worker
Dispatch ==
    /\ pc = "dispatch"
    /\ i < num_threads
    /\ this_rows(i) # 0
    /\ args' = [args EXCEPT ![i] = <<ThreadArgs(i)>>]
    /\ threads' = [threads EXCEPT ![i] = "running"]
    /\ pos' = [pos EXCEPT ![i] = FirstPos(ThreadArgs(i))]
    /\ current_row' = current_row + this_rows(i)
    /\ i' = i + 1
    /\ UNCHANGED <<srcImage, destImage, algorithm, narrowing, pc, freed,
                   writeLog, ub, sample>>

\* the dispatch loop ends: at the first worker without rows, or after the
\* last slot
DispatchEnd ==
    /\ pc = "dispatch"
    /\ i >= num_threads \/ this_rows(i) = 0
    /\ pc' = "join"
    /\ i' = 0
    /\ UNCHANGED <<srcImage, destImage, algorithm, narrowing, current_row,
                   args, threads, pos, freed, writeLog, ub, sample>>

(***************************************************************************)
(* convolute_thread.                                                       *)
(***************************************************************************)
\* the loop counters after the iteration at p: next channel, else next
\* pixel, else next row
\* variant: the loop over the pixels of a row is left after the first pixel
Advance_firstpixel(a, p) ==
    IF p.bit + 1 < a.bpp THEN [p EXCEPT !.bit = p.bit + 1]
    ELSE [row |-> p.row + 1, pix |-> 0, bit |-> 0]

Advance(a, p) ==
    IF p.bit + 1 < a.bpp THEN [p EXCEPT !.bit = p.bit + 1]
    ELSE IF p.pix + 1 < a.width THEN [p EXCEPT !.pix = p.pix + 1, !.bit = 0]
    ELSE [row |-> p.row + 1, pix |-> 0, bit |-> 0]

\* variant: the row is counted from the worker's first row
StoreOffset_relative(a, p) ==
    Index(p.pix, p.row - a.start_row, a.width, p.bit, a.bpp)

\* the offset of dest->data worker arguments a store to at loop counters p
StoreOffset(a, p) == Index(p.pix, p.row, a.width, p.bit, a.bpp)

\* variant: the sample is stored through args->src instead of args->dest
convolute_thread_srcstore(t) ==
    /\ pc # "aborted"
    /\ threads[t] = "running"
    /\ pos[t].row < args[t][1].start_row + args[t][1].num_rows
    /\ LET a == args[t][1]
           p == pos[t]
           val == getPixelValue(Deref(a.src), p.pix, p.row, p.bit,
                                Matrices[a.algorithm])
           o == StoreOffset(a, p)
       IN  /\ srcImage' = [srcImage EXCEPT !.data[o] = val]
           /\ writeLog' = [writeLog EXCEPT ![o] = Append(@, t)]
           /\ pos' = [pos EXCEPT ![t] = Advance(a, p)]
    /\ UNCHANGED <<destImage, algorithm, narrowing, pc, i, current_row, args,
                   threads, freed, ub, sample>>

\* one iteration of the innermost loop of worker t
convolute_thread(t) ==
    /\ pc # "aborted"
    /\ threads[t] = "running"
    /\ pos[t].row < args[t][1].start_row + args[t][1].num_rows
    /\ LET a == args[t][1]
           p == pos[t]
           val == getPixelValue(Deref(a.src), p.pix, p.row, p.bit,
                                Matrices[a.algorithm])
           o == StoreOffset(a, p)
       IN  /\ IF o \in DOMAIN destImage.data
              THEN /\ destImage' = [destImage EXCEPT !.data[o] = val]
                   /\ ub' = ub
              ELSE /\ destImage' = destImage
                   /\ ub' = ub \cup {"store outside dest->data"}
           /\ writeLog' = [writeLog EXCEPT ![o] = Append(@, t)]
           /\ pos' = [pos EXCEPT ![t] = Advance(a, p)]
    /\ UNCHANGED <<srcImage, algorithm, narrowing, pc, i, current_row, args,
                   threads, freed, sample>>

\* worker t leaves its row loop and returns
ThreadExit(t) ==
    /\ pc # "aborted"
    /\ threads[t] = "running"
    /\ pos[t].row >= args[t][1].start_row + args[t][1].num_rows
    /\ threads' = [threads EXCEPT ![t] = "exited"]
    /\ UNCHANGED <<srcImage, destImage, algorithm, narrowing, pc, i,
                   current_row, args, pos, freed, writeLog, ub, sample>>

(***************************************************************************)
(* convolute: the join loop.                                               *)
(***************************************************************************)
\* variant: the slot is released without waiting for the worker
Join_nowait ==
    /\ pc = "join"
    /\ i < num_threads
    /\ args[i] # <<>>
    /\ threads' = [threads EXCEPT ![i] = IF @ = "exited" THEN "joined" ELSE @]
    /\ freed' = freed \cup {i}
    /\ i' = i + 1
    /\ UNCHANGED <<srcImage, destImage, algorithm, narrowing, pc,
                   current_row, args, pos, writeLog, ub, sample>>

\* args[i] was set by the dispatch loop: pthread_join returns once the
\* worker has exited, then the block is freed
Join ==
    /\ pc = "join"
    /\ i < num_threads
    /\ args[i] # <<>>
    /\ threads[i] = "exited"
    /\ threads' = [threads EXCEPT ![i] = "joined"]
    /\ freed' = freed \cup {i}
    /\ i' = i + 1
    /\ UNCHANGED <<srcImage, destImage, algorithm, narrowing, pc,
                   current_row, args, pos, writeLog, ub, sample>>

\* args[i] was never set: the test reads an indeterminate pointer.  It
\* reads as NULL and the slot is skipped, or it reads as non-NULL and
\* pthread_join and free are called on indeterminate values.
JoinUninit ==
    /\ pc = "join"
    /\ i < num_threads
    /\ args[i] = <<>>
    /\ i' = i + 1
    /\ \/ ub' = ub
       \/ ub' = ub \cup {"join and free of an unset slot"}
    /\ UNCHANGED <<srcImage, destImage, algorithm, narrowing, pc,
                   current_row, args, threads, pos, freed, writeLog, sample>>

Return ==
    /\ pc = "join"
    /\ i >= num_threads
    /\ pc' = "returned"
    /\ UNCHANGED <<srcImage, destImage, algorithm, narrowing, i, current_row,
                   args, threads, pos, freed, writeLog, ub, sample>>

\* an undefined operation may end the process
Abort ==
    /\ ub # {}
    /\ pc \in {"dispatch", "join"}
    /\ pc' = "aborted"
    /\ UNCHANGED <<srcImage, destImage, algorithm, narrowing, i, current_row,
                   args, threads, pos, freed, writeLog, ub, sample>>

\* the destination has the shape of the source
SameShape ==
    /\ destImage.width = srcImage.width
    /\ destImage.height = srcImage.height
    /\ destImage.bpp = srcImage.bpp

Next ==
    \/ Dispatch
    \/ DispatchEnd
    \/ \E t \in Slots : convolute_thread(t)
    \/ \E t \in Slots : ThreadExit(t)
    \/ Join
    \/ JoinUninit
    \/ Return
    \/ Abort

Spec == Init /\ [][Next]_vars

(***************************************************************************)
(* Scheduling.  The driver and every created thread are scheduled again    *)
(* and again: a step of one of them that stays possible is eventually      *)
(* taken.  Nothing obliges an undefined operation to end the process.      *)
(***************************************************************************)
\* the calls main makes, the destination having the shape of the source,
\* with one kernel and images at most one pixel wide: scheduling does not
\* depend on the samples
InitFair ==
    /\ Init
    /\ SameShape
    /\ algorithm = "IDENTITY"
    /\ narrowing = "wrap"
    /\ srcImage.width <= 1

Driver == Dispatch \/ DispatchEnd \/ Join \/ JoinUninit \/ Return
Worker(t) == convolute_thread(t) \/ ThreadExit(t)

Fairness ==
    /\ WF_vars(Driver)
    /\ \A t \in Slots : WF_vars(Worker(t))

FairSpec == InitFair /\ [][Next]_vars /\ Fairness

(***************************************************************************)
(* Allocation failures: malloc may return NULL, for the destination buffer *)
(* in main and for an argument block in the dispatch loop.  Neither result *)
(* is tested.                                                              *)
(***************************************************************************)
\* destImage.data is NULL although the image has samples
DestUnallocated ==
    /\ destImage.data = <<>>
    /\ BufLen(destImage.width, destImage.height, destImage.bpp) > 0

\* main up to the call of convolute: the destination takes the shape of the
\* source, and its buffer is allocated or NULL
InitAlloc ==
    /\ \E sh \in Shapes :
         /\ srcImage = Image(sh[1], sh[2], sh[3],
                             PixelData(BufLen(sh[1], sh[2], sh[3]), 0))
         /\ \/ destImage = Image(sh[1], sh[2], sh[3],
                   [o \in 0..(BufLen(sh[1], sh[2], sh[3]) - 1) |-> 170])
            \/ destImage = Image(sh[1], sh[2], sh[3], <<>>)
         /\ writeLog = [o \in 0..(BufLen(sh[1], sh[2], sh[3]) - 1) |-> <<>>]
    /\ algorithm \in {"IDENTITY", "EDGE"}
    /\ narrowing \in NarrowingModes
    /\ pc = "dispatch"
    /\ i = 0
    /\ current_row = 0
    /\ args = [k \in Slots |-> <<>>]
    /\ threads = [k \in Slots |-> "uninit"]
    /\ pos = [k \in Slots |-> [row |-> 0, pix |-> 0, bit |-> 0]]
    /\ freed = {}
    /\ ub = {}
    /\ sample = NoSample

\* an iteration of the dispatch loop whose malloc returns NULL: the
\* assignment to args[i]->src is a store through the null pointer, and the
\* process ends there
DispatchAllocFail ==
    /\ pc = "dispatch"
    /\ i < num_threads
    /\ this_rows(i) # 0
    /\ ub' = ub \cup {"store through a null argument block"}
    /\ pc' = "aborted"
    /\ UNCHANGED <<srcImage, destImage, algorithm, narrowing, i, current_row,
                   args, threads, pos, freed, writeLog, sample>>

NextAlloc ==
    \/ Dispatch
    \/ DispatchAllocFail
    \/ DispatchEnd
    \/ \E t \in Slots : convolute_thread(t)
    \/ \E t \in Slots : ThreadExit(t)
    \/ Join
    \/ JoinUninit
    \/ Return
    \/ Abort

SpecAlloc == InitAlloc /\ [][NextAlloc]_vars

(***************************************************************************)
(* getPixelValue on its own: a source image, a kernel, and calls of the    *)
(* sampler at pixels of the image.                                         *)
(***************************************************************************)
MaxSide == 3

SamplerShapes == (1..MaxSide) \X (1..MaxSide) \X (1..2)
SamplerShifts == {0, 2, 7}

\* pixel data rising in steps of ten: 10, 20, 30, ...
Ramp(len) == [o \in 0..(len - 1) |-> (10 * (o + 1)) % 256]

SamplerData(len) == {PixelData(len, shift) : shift \in SamplerShifts} \cup {Ramp(len)}

InitSampler ==
    /\ \E sh \in SamplerShapes :
         \E data \in SamplerData(BufLen(sh[1], sh[2], sh[3])) :
             srcImage = Image(sh[1], sh[2], sh[3], data)
    /\ destImage = Image(0, 0, 0, <<>>)
    /\ writeLog = <<>>
    /\ algorithm \in KernelTypes
    /\ narrowing \in NarrowingModes
    /\ pc = "sampler"
    /\ i = 0
    /\ current_row = 0
    /\ args = [k \in Slots |-> <<>>]
    /\ threads = [k \in Slots |-> "uninit"]
    /\ pos = [k \in Slots |-> [row |-> 0, pix |-> 0, bit |-> 0]]
    /\ freed = {}
    /\ ub = {}
    /\ sample = NoSample

\* a call getPixelValue(srcImage, x, y, bit, algorithm) within the contract
Sample ==
    /\ pc = "sampler"
    /\ \E x \in 0..(srcImage.width - 1), y \in 0..(srcImage.height - 1),
          bit \in 0..(srcImage.bpp - 1) :
         sample' = [x |-> x, y |-> y, bit |-> bit]
    /\ UNCHANGED <<srcImage, destImage, algorithm, narrowing, pc, i,
                   current_row, args, threads, pos, freed, writeLog, ub>>

NextSampler == Sample

SpecSampler == InitSampler /\ [][NextSampler]_vars

\* the value the sampled call returns
Sampled ==
    getPixelValue(srcImage, sample.x, sample.y, sample.bit,
                  Matrices[algorithm])

(***************************************************************************)
(* Properties.                                                             *)
(***************************************************************************)
Spawned == {k \in Slots : args[k] # <<>>}
Rows(k) == args[k][1].start_row .. (args[k][1].start_row + args[k][1].num_rows - 1)
DispatchFinished == pc \in {"join", "returned"}
Offsets == DOMAIN writeLog
RowOf(o) == o \div (srcImage.width * srcImage.bpp)
Writers(o) == {writeLog[o][n] : n \in 1..Len(writeLog[o])}

\* C1: the row ranges handed to the spawned workers are pairwise disjoint,
\* lie inside [0, height), and once the dispatch loop has ended their union
\* is exactly [0, height).
C1_PartitionCoverage ==
    /\ \A k \in Spawned :
         /\ 0 <= args[k][1].start_row
         /\ args[k][1].start_row + args[k][1].num_rows <= srcImage.height
    /\ \A j, k \in Spawned : j # k => Rows(j) \cap Rows(k) = {}
    /\ DispatchFinished =>
         UNION {Rows(k) : k \in Spawned} = 0..(srcImage.height - 1)

C1_Witness ==
    /\ pc = "join"
    /\ srcImage.height = 5
    /\ Spawned = Slots

\* C2: whatever the interleaving, every store to the destination was made
\* by a worker whose row range holds the row of the offset, and no offset
\* was stored to by two different workers.
C2_DisjointWrites ==
    \A o \in Offsets :
        /\ Cardinality(Writers(o)) <= 1
        /\ \A t \in Writers(o) : RowOf(o) \in Rows(t)

C2_Witness ==
    \E t, u \in Slots :
        /\ t # u
        /\ threads[t] = "running" /\ threads[u] = "running"
        /\ \E o \in Offsets : t \in Writers(o)
        /\ \E o \in Offsets : u \in Writers(o)

\* C3: when convolute returns no worker is still running and every offset
\* of the image has been stored to, and nothing is stored after the return.
C3_ReturnedState ==
    pc = "returned" =>
        /\ \A k \in Slots : threads[k] \in {"uninit", "joined"}
        /\ \A o \in Offsets : Len(writeLog[o]) >= 1

C3_ReturnAfterJoin ==
    /\ []C3_ReturnedState
    /\ [][pc = "returned" => destImage' = destImage /\ writeLog' = writeLog]_vars

C3_Witness ==
    /\ pc = "returned"
    /\ srcImage.height = 5
    /\ srcImage.width = 1
    /\ \A k \in Slots : threads[k] = "joined"

\* the destination after the iterations n, n + 1, ... of a single thread
\* that walks the whole image in row-major order
RECURSIVE SerialRun(_, _)
SerialRun(data, n) ==
    IF n >= BufLen(srcImage.width, srcImage.height, srcImage.bpp) THEN data
    ELSE LET bit == n % srcImage.bpp
             pix == (n \div srcImage.bpp) % srcImage.width
             row == n \div (srcImage.bpp * srcImage.width)
             val == getPixelValue(srcImage, pix, row, bit, Matrices[algorithm])
         IN  SerialRun(IF n \in DOMAIN data THEN [data EXCEPT ![n] = val]
                       ELSE data, n + 1)

InitialDest == [o \in DOMAIN destImage.data |-> 170]

\* C4: for a given source and kernel the destination at the return of
\* convolute is the same under every scheduling of the workers: it is the
\* buffer a single thread leaves.
C4_Deterministic ==
    pc = "returned" => destImage.data = SerialRun(InitialDest, 0)

C4_Witness ==
    /\ pc = "returned"
    /\ algorithm = "EDGE"
    /\ srcImage.height = 4
    /\ srcImage.width = 2
    /\ SameShape

\* C5: with the identity kernel, an image of at least one pixel with 1 to 4
\* channels and a destination of the shape of the source, convolute runs to
\* its return and the destination then equals the source at every offset.
C5_Identity ==
    (/\ algorithm = "IDENTITY"
     /\ SameShape
     /\ srcImage.width >= 1 /\ srcImage.height >= 1
     /\ srcImage.bpp \in 1..4) =>
        /\ pc # "aborted"
        /\ pc = "returned" => destImage.data = srcImage.data

Clamp(v, lo, hi) == IF v < lo THEN lo ELSE IF v > hi THEN hi ELSE v

\* C6: at every pixel of the image the sampler's three columns are
\* clamp(x + dx, 0, width - 1) and its three rows clamp(y + dy, 0, height - 1)
\* for dx, dy = -1, 0, 1, and the nine offsets it reads are inside the buffer.
C6_EdgeClamp ==
    sample # NoSample =>
        /\ \A c \in 1..3 :
             NeighbourX(srcImage, sample.x)[c]
                 = Clamp(sample.x + c - 2, 0, srcImage.width - 1)
        /\ \A r \in 1..3 :
             NeighbourY(srcImage, sample.y)[r]
                 = Clamp(sample.y + r - 2, 0, srcImage.height - 1)
        /\ \A r, c \in 1..3 :
             SampleOffsets(srcImage, sample.x, sample.y, sample.bit)[r][c]
                 \in DOMAIN srcImage.data

C6_Witness ==
    /\ sample # NoSample
    /\ srcImage.width = 1
    /\ srcImage.height = 3
    /\ sample.y = 2

\* the weights in exact arithmetic: 144 is a common denominator of the table
WeightDen == 9 * 16
Weight144(k, r, c) == algorithms[k][r][c][1] * (WeightDen \div algorithms[k][r][c][2])
WeightSum144(k) ==
    Weight144(k, 1, 1) + Weight144(k, 1, 2) + Weight144(k, 1, 3)
    + Weight144(k, 2, 1) + Weight144(k, 2, 2) + Weight144(k, 2, 3)
    + Weight144(k, 3, 1) + Weight144(k, 3, 2) + Weight144(k, 3, 3)
TruncDiv(a, b) == IF a >= 0 THEN a \div b ELSE -((-a) \div b)

\* C7: for a 1x1 image the value convolute leaves in each channel is the sum
\* of the nine weights times the pixel's value, modulo 256.
C7_OnePixel ==
    (/\ pc = "returned"
     /\ srcImage.width = 1 /\ srcImage.height = 1
     /\ SameShape) =>
        \A c \in DOMAIN srcImage.data :
            destImage.data[c]
                = TruncDiv(WeightSum144(algorithm) * srcImage.data[c], WeightDen) % 256

IntegerWeights(k) == \A r, c \in 1..3 : algorithms[k][r][c][2] = 1

\* the weighted sum of the nine neighbours of the sampled pixel, for a
\* kernel of integer weights
IntegerSum ==
    LET offs == SampleOffsets(srcImage, sample.x, sample.y, sample.bit)
        term(r, c) == algorithms[algorithm][r][c][1] * srcImage.data[offs[r][c]]
    IN  term(1, 1) + term(1, 2) + term(1, 3) + term(2, 1) + term(2, 2)
        + term(2, 3) + term(3, 1) + term(3, 2) + term(3, 3)

\* C8: for a kernel of integer weights the sampler returns the weighted sum
\* of the nine neighbours modulo 256, also when the sum is negative or above
\* 255.
C8_WrapModulo ==
    (sample # NoSample /\ IntegerWeights(algorithm)) =>
        Sampled = IntegerSum % 256

Untouched ==
    /\ \A o \in Offsets : writeLog[o] = <<>>
    /\ destImage.data = InitialDest

\* C9: with a destination whose shape differs from the source's, no worker
\* is spawned and the destination is not modified.
C9_ShapeMismatchRejected ==
    ~SameShape => (Spawned = {} /\ Untouched)

\* C10: with a channel count outside 1..4 no worker is spawned and the
\* destination is not modified, and at the return of any call the
\* destination is written in full or not at all.
C10_InvalidChannelCount ==
    /\ srcImage.bpp \notin 1..4 => (Spawned = {} /\ Untouched)
    /\ pc = "returned" =>
         \/ \A o \in Offsets : writeLog[o] # <<>>
         \/ \A o \in Offsets : writeLog[o] = <<>>

\* C11: no step of a call of convolute, of the driver or of a worker,
\* changes the source image (its buffer, width, height, channel count) or the
\* kernel, nor the kernel copy in the argument block of a spawned worker.
C11_SourceUnchanged ==
    [][/\ srcImage' = srcImage
       /\ algorithm' = algorithm
       /\ \A k \in Spawned : args'[k][1].algorithm = algorithm]_vars

C11_Witness ==
    /\ pc = "returned"
    /\ algorithm = "SHARPEN"
    /\ srcImage.height = 4
    /\ srcImage.width = 2
    /\ SameShape
    /\ destImage.data # srcImage.data

\* C12: for an image of zero rows or zero columns the call does not end
\* abnormally, the destination buffer is never stored to and no worker runs
\* an iteration (so the source buffer is never read); with zero rows no
\* worker is spawned and the join loop joins and frees nothing.
C12_EmptyImage ==
    (srcImage.height = 0 \/ srcImage.width = 0) =>
        /\ pc # "aborted"
        /\ destImage.data = InitialDest
        /\ \A k \in Spawned : pos[k] = FirstPos(args[k][1])
        /\ srcImage.height = 0 => (Spawned = {} /\ ub = {})

\* C13: for the 3x3 image of one channel with the samples 10, 20, ..., 90
\* and the kernel BLUR, the sampler returns 50 at the centre pixel (1, 1) and
\* 23 at the corner pixel (0, 0).
C13_BoxBlur ==
    (/\ sample # NoSample
     /\ algorithm = "BLUR"
     /\ srcImage = Image(3, 3, 1, Ramp(9))) =>
        /\ (sample.x = 1 /\ sample.y = 1) => Sampled = 50
        /\ (sample.x = 0 /\ sample.y = 0) => Sampled = 23

C13_Witness ==
    /\ algorithm = "BLUR"
    /\ srcImage = Image(3, 3, 1, Ramp(9))
    /\ sample = [x |-> 0, y |-> 0, bit |-> 0]
    /\ Sampled = 23

\* C14: when an allocation fails the call does not end abnormally, no store
\* is made through the failed allocation, by a worker or by the driver, and
\* the call does not return to the encoding of the image with a destination
\* that was never allocated.
C14_AllocationFailureSurfaced ==
    /\ "store through a null argument block" \notin ub
    /\ DestUnallocated =>
         /\ \A o \in Offsets : writeLog[o] = <<>>
         /\ pc \notin {"returned", "aborted"}

Min(a, b) == IF a < b THEN a ELSE b

\* C15: with base = height / 4 and rem = height % 4, spawned worker k has
\* base + 1 rows if k < rem and base rows otherwise, and starts at row
\* k * base + min(k, rem), which is where worker k - 1 ends; so the row
\* counts of two workers differ by at most one and never grow with k.
C15_BalancedPartition ==
    LET base == srcImage.height \div 4
        rem == srcImage.height % 4
    IN  /\ \A k \in Spawned :
             /\ args[k][1].num_rows = base + (IF k < rem THEN 1 ELSE 0)
             /\ args[k][1].start_row = k * base + Min(k, rem)
             /\ k = 0 => args[k][1].start_row = 0
             /\ k > 0 =>
                  /\ k - 1 \in Spawned
                  /\ args[k][1].start_row
                       = args[k - 1][1].start_row + args[k - 1][1].num_rows
        /\ \A j, k \in Spawned :
             /\ args[j][1].num_rows - args[k][1].num_rows \in {-1, 0, 1}
             /\ j < k => args[j][1].num_rows >= args[k][1].num_rows

C15_Witness ==
    /\ Spawned = Slots
    /\ srcImage.height = 5
    /\ args[0][1].num_rows = 2
    /\ args[3][1].num_rows = 1
    /\ args[3][1].start_row = 4

\* C16: the join loop joins and frees exactly the slots the dispatch loop
\* created: nothing is joined or freed through a slot that was never set,
\* and once the dispatch loop has ended min(4, height) workers are spawned.
C16_JoinOnlyCreated ==
    /\ "join and free of an unset slot" \notin ub
    /\ freed \subseteq Spawned
    /\ \A k \in Slots \ Spawned : threads[k] = "uninit"
    /\ DispatchFinished => Cardinality(Spawned) = Min(4, srcImage.height)

\* C17: under fair scheduling of the driver and of the workers, every call
\* of convolute eventually returns.
C17_EventuallyReturns == <>(pc = "returned")

\* the offset of channel c of pixel (x, y) as the claim gives it
FlatOffset(x, y, c) == (y * srcImage.width + x) * srcImage.bpp + c

\* every iteration of a worker is at a row of its range, a column and a
\* channel of the image, and stores the sampler's result for that
\* coordinate of the source at the coordinate's offset
C18_StepStoresSample ==
    \A t \in Slots :
        (threads[t] = "running" /\ pos'[t] # pos[t]) =>
            LET p == pos[t]
                o == FlatOffset(p.pix, p.row, p.bit)
            IN  /\ p.row \in Rows(t)
                /\ p.pix \in 0..(srcImage.width - 1)
                /\ p.bit \in 0..(srcImage.bpp - 1)
                /\ writeLog'[o] = Append(writeLog[o], t)
                /\ o \in DOMAIN destImage.data =>
                     destImage'.data[o]
                         = getPixelValue(srcImage, p.pix, p.row, p.bit,
                                         Matrices[algorithm])

\* a worker that has left its loops has stored to the offset of every
\* row of its range, every column and every channel
C18_RangeStored ==
    \A t \in Spawned :
        threads[t] \in {"exited", "joined"} =>
            \A y \in Rows(t), x \in 0..(srcImage.width - 1),
               c \in 0..(srcImage.bpp - 1) :
                writeLog[FlatOffset(x, y, c)] = <<t>>

\* at the return the destination holds, at each offset, the sampler's
\* result for the source coordinate stored at that offset
C18_SampleAtOffset ==
    pc = "returned" =>
        \A y \in 0..(srcImage.height - 1), x \in 0..(srcImage.width - 1),
           c \in 0..(srcImage.bpp - 1) :
            FlatOffset(x, y, c) \in DOMAIN destImage.data =>
                destImage.data[FlatOffset(x, y, c)]
                    = getPixelValue(srcImage, x, y, c, Matrices[algorithm])

\* C18: each worker, for every row of its range, every column and every
\* channel, stores the sampler's result for (x, y, channel) at the offset
\* (y * width + x) * channelCount + channel of the destination, so that the
\* destination holds at each offset the sample of the source coordinate of
\* that offset.
C18_WorkerStores ==
    /\ [][C18_StepStoresSample]_vars
    /\ [](C18_RangeStored /\ C18_SampleAtOffset)

C18_Witness ==
    /\ pc = "returned"
    /\ algorithm = "EMBOSS"
    /\ srcImage.width = 2
    /\ srcImage.bpp = 2
    /\ srcImage.height = 2
    /\ SameShape
    /\ writeLog[FlatOffset(1, 1, 1)] = <<1>>

\* the number of stores made to the offsets n, n + 1, ...
RECURSIVE WritesFrom(_)
WritesFrom(n) ==
    IF n \notin Offsets THEN 0 ELSE Len(writeLog[n]) + WritesFrom(n + 1)

\* C19: no offset is ever stored to twice, and when convolute returns every
\* offset in [0, width * height * bpp) has been stored to exactly once, so
\* that width * height * bpp stores were made in all.
C19_WrittenOnce ==
    /\ \A o \in Offsets : Len(writeLog[o]) <= 1
    /\ Offsets = 0..(srcImage.width * srcImage.height * srcImage.bpp - 1)
    /\ pc = "returned" =>
         /\ \A o \in Offsets : Len(writeLog[o]) = 1
         /\ WritesFrom(0) = srcImage.width * srcImage.height * srcImage.bpp

C19_Witness ==
    /\ pc = "returned"
    /\ srcImage.height = 3
    /\ srcImage.width = 2
    /\ srcImage.bpp = 1
    /\ WritesFrom(0) = 6

ThreadArgsFields ==
    {"src", "dest", "algorithm", "start_row", "num_rows", "width", "bpp"}

\* a thread that was created has an argument block with every field set,
\* and a block that was freed belongs to a worker that was joined
C20_BlockState ==
    /\ \A k \in Slots :
         threads[k] # "uninit" =>
             /\ args[k] # <<>>
             /\ DOMAIN args[k][1] = ThreadArgsFields
             /\ args[k][1].src = "srcImage" /\ args[k][1].dest = "destImage"
             /\ args[k][1].algorithm = algorithm
             /\ args[k][1].width = srcImage.width
             /\ args[k][1].bpp = srcImage.bpp
             /\ args[k][1].num_rows > 0
    /\ \A k \in freed : threads[k] = "joined"

\* a block that was set is not modified, a worker that steps has a block
\* that is not freed, and a block is freed once, by the join of its worker
C20_BlockStep ==
    /\ \A k \in Spawned : args'[k] = args[k]
    /\ \A t \in Slots :
         (threads[t] = "running" /\ (pos'[t] # pos[t] \/ threads'[t] # threads[t]))
             => t \notin freed
    /\ freed \subseteq freed'
    /\ \A k \in freed' \ freed :
         /\ freed' = freed \cup {k}
         /\ threads[k] = "exited" /\ threads'[k] = "joined"

\* C20: the argument block of a worker is filled in full before its thread
\* exists, is not modified afterwards, is freed only once the worker has
\* been joined, is not read by the worker after it is freed, and is not
\* freed twice.
C20_ArgumentBlockLifetime ==
    /\ []C20_BlockState
    /\ [][C20_BlockStep]_vars

C20_Witness ==
    /\ pc = "join"
    /\ freed = {0, 1}
    /\ threads[2] = "exited"
    /\ threads[3] = "running"
    /\ pos[3] # FirstPos(args[3][1])

====
